---- MODULE Spec2Model ----
(***************************************************************************)
(* Adaptive workflow controller of the deep-research pipeline:             *)
(*   - ResearchStateMachine        (src/workflow/state_machine.py)         *)
(*   - AdvancedResearchPipeline    (src/pipeline_advanced.py), the driver  *)
(*   - ABTest, ABTestManager       (src/testing/ab_testing.py)             *)
(*                                                                         *)
(* Real-valued metrics (confidence, coverage, synthesis_quality) are kept  *)
(* as exact rationals in units of 1/One, so that means over up to six      *)
(* research steps and the thresholds of the code are all integers.         *)
(***************************************************************************)
EXTENDS Integers, Sequences, FiniteSets, TLC

VARIABLES
    current_state,   \* ResearchStateMachine.current_state
    state_history,   \* ResearchStateMachine.state_history (StateTransition records)
    context,         \* ResearchStateMachine.context (argument of the last next_state)
    pc,              \* position of execute(): idle, loop, activity, build, next, final, save, done
    iteration,       \* execute: local iteration
    max_iterations,  \* execute: the effective iteration budget
    built,           \* execute: local context, the dict _build_context returned
    research_plan,   \* ResearchPipeline.research_plan (the queries of its steps)
    research_history, \* ResearchAgent.research_history (ResearchStep records)
    agent_phase,     \* ResearchAgent.current_phase
    final_report,    \* ResearchPipeline.final_report (its length in characters)
    validation_results, \* AdvancedResearchPipeline.validation_results (levels)
    validation_cache, \* FactChecker.validation_cache (finding -> cached level)
    iterations_without_progress, \* AdvancedResearchPipeline.iterations_without_progress
    previous_confidence, \* AdvancedResearchPipeline.previous_confidence
    results,         \* what _save_results persisted and execute returns
    variants,        \* ABTest.variants (the registered names, in registration order)
    test_results,    \* ABTest.results (TestResult records)
    variant_stats,   \* ABTest.variant_stats (name -> recorded values)
    returned,        \* what the last call on the test returned or raised
    active_tests,    \* ABTestManager.active_tests (name -> test, in insertion order)
    tasks,           \* the tasks submitted to AgentOrchestrator.executor and not forgotten
    batch,           \* parallel_search_and_analyze: the caller's position and locals
    performance_metrics,  \* BaseAgent.performance_metrics["tasks_completed"] of each agent
    ab_tests         \* AdvancedResearchPipeline.ab_tests.active_tests (name -> ABTest)

----------------------------------------------------------------------------
(* Bounds of the model *)

\* longest state_history the model explores when callers step the machine freely
MaxHist == 4

\* largest max_iterations a caller passes to execute
MaxBudget == 5

\* longest plan the planner returns
MaxPlan == 4

\* most results recorded in one A/B test
MaxResults == 3

\* most calls of parallel_search_and_analyze on one orchestrator
MaxCalls == 1

\* most queries passed to one call of parallel_search_and_analyze
MaxQueries == 4

----------------------------------------------------------------------------
(* Numbers *)

\* 1.0 in model units; Pct(p) is p/100
One == 60 * 100
Pct(p) == p * 60

----------------------------------------------------------------------------
(* WorkflowState *)

PLANNING     == "planning"
SEARCHING    == "searching"
ANALYZING    == "analyzing"
VALIDATING   == "validating"
REFINING     == "refining"
SYNTHESIZING == "synthesizing"
COMPLETED    == "completed"
FAILED       == "failed"

WorkflowState ==
    {PLANNING, SEARCHING, ANALYZING, VALIDATING, REFINING, SYNTHESIZING,
     COMPLETED, FAILED}

\* StateTransition(from_state, to_state, condition=reason, reason=reason);
\* the timestamp is not modelled (nothing reads it)
StateTransition(from, to, reason) ==
    [from_state |-> from, to_state |-> to, condition |-> reason, reason |-> reason]

----------------------------------------------------------------------------
(* Contexts: Python dicts, i.e. functions from the keys that are present *)

\* ctx.get(key, default)
Get(ctx, key, default) == IF key \in DOMAIN ctx THEN ctx[key] ELSE default

\* values on both sides of (and on) every threshold the machine compares with
ConfidenceValues    == {Pct(40), Pct(50), Pct(80), Pct(90)}
CoverageValues      == {Pct(70), Pct(75), Pct(80)}
ContradictionValues == {0, 2, 3}
StagnationValues    == {2, 3}
ResultsValues       == {0, 1}
QualityValues       == {Pct(80), Pct(90)}

\* the contexts with every key present
FullContexts ==
    [confidence : ConfidenceValues,
     coverage : CoverageValues,
     contradictions : ContradictionValues,
     iterations_without_progress : StagnationValues,
     results_found : ResultsValues,
     validation_passed : BOOLEAN,
     synthesis_quality : QualityValues]

\* the contexts a caller steps the machine with.  validation_passed is read
\* in VALIDATING only and synthesis_quality in SYNTHESIZING only, so no state
\* reads both: the two are tied, which halves the contexts and leaves every
\* combination of values that one decision reads.
Contexts ==
    {c \in FullContexts : c.validation_passed = (c.synthesis_quality > Pct(80))}

----------------------------------------------------------------------------
(* ResearchStateMachine: the decision of next_state *)

\* _should_validate
\* a variant of _should_validate that escalates on the contradiction count alone
should_validate_ContradictionsOnly(cs, ctx) ==
    IF Get(ctx, "results_found", 0) = 0 THEN FALSE
    ELSE IF cs = VALIDATING THEN FALSE
    ELSE Get(ctx, "contradictions", 0) > 2

\* a variant of _should_validate that does not exempt VALIDATING
should_validate_Anywhere(cs, ctx) ==
    IF Get(ctx, "results_found", 0) = 0 THEN FALSE
    ELSE \/ Get(ctx, "contradictions", 0) > 2
         \/ Get(ctx, "confidence", One) < Pct(50)

should_validate(cs, ctx) ==
    IF Get(ctx, "results_found", 0) = 0 THEN FALSE
    ELSE IF cs = VALIDATING THEN FALSE
    ELSE \/ Get(ctx, "contradictions", 0) > 2
         \/ Get(ctx, "confidence", One) < Pct(50)

\* _is_stuck
\* a variant of _is_stuck that fires one stagnant iteration earlier
is_stuck_AtTwo(cs, ctx) ==
    IF cs = REFINING THEN FALSE
    ELSE Get(ctx, "iterations_without_progress", 0) >= 2

\* a variant of _is_stuck that fires on the first stagnant iteration
is_stuck_AtOne(cs, ctx) ==
    IF cs = REFINING THEN FALSE
    ELSE Get(ctx, "iterations_without_progress", 0) >= 1

is_stuck(cs, ctx) ==
    IF cs = REFINING THEN FALSE
    ELSE Get(ctx, "iterations_without_progress", 0) > 2

\* _can_complete
\* a variant of _can_complete whose default for contradictions is 0
can_complete_LenientDefault(cs, ctx) ==
    /\ Get(ctx, "confidence", 0) > Pct(80)
    /\ Get(ctx, "coverage", 0) > Pct(75)
    /\ Get(ctx, "contradictions", 0) = 0
    /\ cs = SYNTHESIZING

\* a variant of _can_complete with the coverage threshold of the analysis row
can_complete_Coverage70(cs, ctx) ==
    /\ Get(ctx, "confidence", 0) > Pct(80)
    /\ Get(ctx, "coverage", 0) > Pct(70)
    /\ Get(ctx, "contradictions", 99) = 0
    /\ cs = SYNTHESIZING

\* a variant of _can_complete that does not look at the state
can_complete_AnyState(cs, ctx) ==
    /\ Get(ctx, "confidence", 0) > Pct(80)
    /\ Get(ctx, "coverage", 0) > Pct(75)
    /\ Get(ctx, "contradictions", 99) = 0

can_complete(cs, ctx) ==
    /\ Get(ctx, "confidence", 0) > Pct(80)
    /\ Get(ctx, "coverage", 0) > Pct(75)
    /\ Get(ctx, "contradictions", 99) = 0
    /\ cs = SYNTHESIZING

\* a decision: the state to move to and the reason code to record
Go(to, reason) == [to |-> to, reason |-> reason]

next_from_planning(ctx) == Go(SEARCHING, "plan_complete")

next_from_searching(ctx) ==
    IF Get(ctx, "results_found", 0) = 0
    THEN Go(REFINING, "no_results")
    ELSE Go(ANALYZING, "results_found")

next_from_analyzing(ctx) ==
    IF Get(ctx, "confidence", Pct(50)) < Pct(60)
    THEN Go(SEARCHING, "low_confidence")
    ELSE IF Get(ctx, "contradictions", 0) > 2
    THEN Go(VALIDATING, "contradictions_found")
    ELSE IF Get(ctx, "coverage", 0) > Pct(70)
    THEN Go(SYNTHESIZING, "sufficient_coverage")
    ELSE Go(SEARCHING, "coverage_incomplete")

\* a variant of _next_from_validating that gives up when validation failed
next_from_validating_Fail(ctx) ==
    IF Get(ctx, "validation_passed", FALSE)
    THEN Go(SYNTHESIZING, "validation_passed")
    ELSE Go(FAILED, "validation_failed")

\* a variant of _next_from_validating that searches again when validation failed
next_from_validating_Retry(ctx) ==
    IF Get(ctx, "validation_passed", FALSE)
    THEN Go(SYNTHESIZING, "validation_passed")
    ELSE Go(SEARCHING, "validation_failed")

next_from_validating(ctx) ==
    IF Get(ctx, "validation_passed", FALSE)
    THEN Go(SYNTHESIZING, "validation_passed")
    ELSE Go(REFINING, "validation_failed")

\* a variant of _next_from_refining whose forced exit waits one more iteration
next_from_refining_LateExit(ctx) ==
    IF Get(ctx, "iterations_without_progress", 0) > 3
    THEN Go(SYNTHESIZING, "forcing_synthesis_stuck_in_loop")
    ELSE IF Get(ctx, "coverage", 0) > Pct(70) /\ Get(ctx, "results_found", 0) > 0
    THEN Go(SYNTHESIZING, "sufficient_results_for_synthesis")
    ELSE Go(SEARCHING, "strategy_refined")

next_from_refining(ctx) ==
    IF Get(ctx, "iterations_without_progress", 0) > 2
    THEN Go(SYNTHESIZING, "forcing_synthesis_stuck_in_loop")
    ELSE IF Get(ctx, "coverage", 0) > Pct(70) /\ Get(ctx, "results_found", 0) > 0
    THEN Go(SYNTHESIZING, "sufficient_results_for_synthesis")
    ELSE Go(SEARCHING, "strategy_refined")

next_from_synthesizing(ctx) ==
    IF Get(ctx, "synthesis_quality", Pct(50)) > Pct(80)
    THEN Go(COMPLETED, "high_quality_synthesis")
    ELSE Go(ANALYZING, "synthesis_needs_improvement")

\* a variant of next_state_map without the entry for REFINING
next_state_map_NoRefining == {PLANNING, SEARCHING, ANALYZING, VALIDATING, SYNTHESIZING}

\* the states next_state_map has an entry for
next_state_map == {PLANNING, SEARCHING, ANALYZING, VALIDATING, REFINING, SYNTHESIZING}

\* next_state_map.get(current)(context): the state-local default
default_next(cs, ctx) ==
    CASE cs = PLANNING     -> next_from_planning(ctx)
      [] cs = SEARCHING    -> next_from_searching(ctx)
      [] cs = ANALYZING    -> next_from_analyzing(ctx)
      [] cs = VALIDATING   -> next_from_validating(ctx)
      [] cs = REFINING     -> next_from_refining(ctx)
      [] cs = SYNTHESIZING -> next_from_synthesizing(ctx)

\* a variant of next_state that tries early completion before the stagnation rule
decide_CompletionFirst(cs, ctx) ==
    IF should_validate(cs, ctx) THEN Go(VALIDATING, "contradictions_detected")
    ELSE IF can_complete(cs, ctx) THEN Go(COMPLETED, "objectives_met")
    ELSE IF is_stuck(cs, ctx) THEN Go(REFINING, "stuck_in_loop")
    ELSE IF cs \in next_state_map THEN default_next(cs, ctx)
    ELSE Go(cs, "")

\* the decision of next_state in state cs: a Go record, or no transition
\* (reason "" and to = cs: the final `return current`)
decide(cs, ctx) ==
    IF should_validate(cs, ctx) THEN Go(VALIDATING, "contradictions_detected")
    ELSE IF is_stuck(cs, ctx) THEN Go(REFINING, "stuck_in_loop")
    ELSE IF can_complete(cs, ctx) THEN Go(COMPLETED, "objectives_met")
    ELSE IF cs \in next_state_map THEN default_next(cs, ctx)
    ELSE Go(cs, "")

\* a variant of _transition_to that keeps the newest transition only
transition_to_Replace(cs, hist, d) == <<StateTransition(cs, d.to, d.reason)>>

\* _transition_to: the history after recording the decision d taken in cs
transition_to(cs, hist, d) == Append(hist, StateTransition(cs, d.to, d.reason))

\* next_state(ctx): stores the context, decides, and commits the decision
next_state(ctx) ==
    LET d == decide(current_state, ctx) IN
    /\ context' = ctx
    /\ IF d.reason = ""
       THEN UNCHANGED <<current_state, state_history>>
       ELSE /\ state_history' = transition_to(current_state, state_history, d)
            /\ current_state' = d.to

\* a variant of backtrack's loop that pops a single transition
pop_transitions_One(hist, n) ==
    IF n <= 0 THEN hist ELSE SubSeq(hist, 1, Len(hist) - 1)

\* backtrack: `for _ in range(steps): self.state_history.pop()`
RECURSIVE pop_transitions(_, _)
pop_transitions(hist, n) ==
    IF n <= 0 THEN hist
    ELSE pop_transitions(SubSeq(hist, 1, Len(hist) - 1), n - 1)

\* can_backtrack
can_backtrack(hist) == Len(hist) > 0

\* a variant of the early return that tests can_backtrack only
backtrack_refused_EmptyOnly(hist, steps) == ~can_backtrack(hist)

\* backtrack(steps): the early return
backtrack_refused(hist, steps) == ~can_backtrack(hist) \/ steps > Len(hist)

\* backtrack(steps): state_history after the call
backtrack_history(hist, steps) ==
    IF backtrack_refused(hist, steps) THEN hist
    ELSE pop_transitions(hist, steps)

\* a variant of backtrack that does not restore the state
backtrack_state_Keep(cs, hist, steps) == cs

\* backtrack(steps): current_state after the call (the value returned)
backtrack_state(cs, hist, steps) ==
    IF backtrack_refused(hist, steps) THEN cs
    ELSE IF Len(backtrack_history(hist, steps)) > 0
    THEN backtrack_history(hist, steps)[Len(backtrack_history(hist, steps))].to_state
    ELSE PLANNING

\* backtrack(steps)
backtrack(steps) ==
    /\ state_history' = backtrack_history(state_history, steps)
    /\ current_state' = backtrack_state(current_state, state_history, steps)
    /\ context' = context

----------------------------------------------------------------------------
machine_vars == <<current_state, state_history, context>>

driver_vars ==
    <<pc, iteration, max_iterations, built, research_plan, research_history,
      agent_phase, final_report, validation_results, validation_cache,
      iterations_without_progress, previous_confidence, results, ab_tests>>

\* ABTest.__init__: the variants in insertion order, no result, an empty list
\* of values for every variant
NewABTest(order) ==
    [variants |-> order,
     results |-> <<>>,
     variant_stats |-> [v \in {order[i] : i \in 1..Len(order)} |-> <<>>]]

\* _setup_ab_tests: the two create_test calls on the pipeline's empty manager
setup_ab_tests ==
    <<[name |-> "planning_strategy", test |-> NewABTest(<<"A", "B">>)],
      [name |-> "analysis_depth", test |-> NewABTest(<<"A", "B">>)]>>

ab_vars == <<variants, test_results, variant_stats, returned, active_tests>>

pool_vars == <<tasks, batch, performance_metrics>>

vars == <<machine_vars, driver_vars, ab_vars, pool_vars>>

\* ResearchStateMachine.__init__ and AdvancedResearchPipeline.__init__
Init ==
    /\ current_state = PLANNING
    /\ state_history = <<>>
    /\ context = <<>>
    /\ pc = "idle"
    /\ iteration = 0
    /\ max_iterations = 0
    /\ built = <<>>
    /\ research_plan = <<>>
    /\ research_history = <<>>
    /\ agent_phase = "planning"
    /\ final_report = 0
    /\ validation_results = <<>>
    /\ validation_cache = <<>>
    /\ iterations_without_progress = 0
    /\ previous_confidence = 0
    /\ results = <<>>
    /\ variants = <<>>
    /\ test_results = <<>>
    /\ variant_stats = <<>>
    /\ returned = [kind |-> "None"]
    /\ active_tests = <<>>
    /\ tasks = <<>>
    /\ batch = [pc |-> "idle", queries |-> <<>>, i |-> 0, base |-> 0,
                search_results |-> <<>>, results |-> <<>>, calls |-> 0]
    /\ performance_metrics = [searcher |-> 0, analyzer |-> 0]
    /\ ab_tests = setup_ab_tests

\* a caller steps the machine with any context
NextState ==
    /\ Len(state_history) < MaxHist
    /\ \E ctx \in Contexts : next_state(ctx)
    /\ UNCHANGED <<driver_vars, ab_vars, pool_vars>>

Next == NextState

Spec == Init /\ [][Next]_vars

\* the machine under persisting stagnation: every context a caller passes
\* has iterations_without_progress > 2, and the caller stops at a terminal state
StuckContexts == {c \in Contexts : c.iterations_without_progress > 2}

NextStateStuck ==
    /\ Len(state_history) < MaxHist
    /\ current_state \notin {COMPLETED, FAILED}
    /\ \E ctx \in StuckContexts : next_state(ctx)
    /\ UNCHANGED <<driver_vars, ab_vars, pool_vars>>

SpecStuck == Init /\ [][NextStateStuck]_vars

\* a few complete contexts, enough to take the machine into every state
SampleContexts ==
    {c \in Contexts : /\ c.confidence \in {Pct(40), Pct(90)}
                      /\ c.coverage = Pct(80)
                      /\ c.contradictions = 0}

\* the keys other than synthesis_quality that a context may lack one by one
CompletionKeys == {"confidence", "coverage", "contradictions"}
OtherKeys == {"iterations_without_progress", "results_found", "validation_passed"}

\* a dict with the entries of c for the keys in K
Restrict(c, K) == [k \in K |-> c[k]]

\* contexts without synthesis_quality and without at least one of confidence,
\* coverage, contradictions; the empty dict is one of them
\* (the values of the keys that are present are those that favour completion)
PartialContexts ==
    {<<>>} \cup
    {Restrict(c, OtherKeys \cup T) :
        c \in {b \in SampleContexts : b.confidence = Pct(90) /\ b.validation_passed},
        T \in (SUBSET CompletionKeys) \ {CompletionKeys}}

\* the step counts a caller passes to backtrack
StepsValues == 0..(MaxHist + 1)

\* a caller steps the machine with a complete or an incomplete context
NextStateAnyKeys ==
    /\ Len(state_history) < MaxHist
    /\ \E ctx \in SampleContexts \cup PartialContexts : next_state(ctx)
    /\ UNCHANGED <<driver_vars, ab_vars, pool_vars>>

\* a caller backtracks
Backtrack ==
    /\ \E steps \in StepsValues : backtrack(steps)
    /\ UNCHANGED <<driver_vars, ab_vars, pool_vars>>

NextMachine ==
    \/ NextStateAnyKeys
    \/ Backtrack

\* the machine used on its own: next_state and backtrack in any order
SpecMachine == Init /\ [][NextMachine]_vars

----------------------------------------------------------------------------
(* AdvancedResearchPipeline: the metrics *)

Min(a, b) == IF a < b THEN a ELSE b
Max(a, b) == IF a > b THEN a ELSE b
Abs(a) == IF a < 0 THEN -a ELSE a

\* sum(step.confidence for step in steps)
RECURSIVE total_confidence(_)
total_confidence(steps) ==
    IF steps = <<>> THEN 0
    ELSE steps[1].confidence + total_confidence(Tail(steps))

\* _calculate_confidence
calculate_confidence(history) ==
    IF history = <<>> THEN 0
    ELSE total_confidence(history) \div Len(history)

\* _calculate_coverage
calculate_coverage(plan, history) ==
    IF plan = <<>> THEN 0
    ELSE Min(One, (Len(history) * One) \div Max(Len(plan), 1))

\* _count_contradictions
count_contradictions(validations) ==
    Cardinality({i \in 1..Len(validations) : validations[i] = "failed"})

\* a variant of the window that takes every validation result
recent_validations_All(validations) == validations

\* validation_results[-3:]
recent_validations(validations) ==
    SubSeq(validations, Max(1, Len(validations) - 2), Len(validations))

\* _validation_passed
validation_passed(validations) ==
    IF validations = <<>> THEN TRUE
    ELSE \A i \in 1..Len(recent_validations(validations)) :
            recent_validations(validations)[i] # "failed"

\* _calculate_synthesis_quality; a report is modelled by its length in characters
calculate_synthesis_quality(report, history) ==
    IF report = 0 THEN 0
    ELSE (Min(One, (report * One) \div 1000) + calculate_confidence(history)) \div 2

\* a variant of the progress test that counts any change of the confidence
progress_made_Any(confidence, previous) == Abs(confidence - previous) > 0

\* abs(confidence - self.previous_confidence) > 0.05
progress_made(confidence, previous) == Abs(confidence - previous) > Pct(5)

\* _build_context: the counter after the call
stagnation_after(plan, history, previous, counter) ==
    IF history = <<>> /\ plan = <<>> THEN counter + 1
    ELSE IF ~progress_made(calculate_confidence(history), previous) THEN counter + 1
    ELSE 0

\* _build_context: previous_confidence after the call
previous_after(plan, history, previous) ==
    IF history = <<>> /\ plan = <<>> THEN previous
    ELSE calculate_confidence(history)

\* _build_context: the dict it returns
build_context(plan, history, validations, report, previous, counter) ==
    IF history = <<>> /\ plan = <<>>
    THEN [confidence |-> 0,
          coverage |-> 0,
          contradictions |-> 0,
          iterations_without_progress |-> counter + 1,
          results_found |-> 0,
          validation_passed |-> FALSE,
          synthesis_quality |-> 0]
    ELSE [confidence |-> calculate_confidence(history),
          coverage |-> calculate_coverage(plan, history),
          contradictions |-> count_contradictions(validations),
          iterations_without_progress |->
              stagnation_after(plan, history, previous, counter),
          results_found |-> Len(history),
          validation_passed |-> validation_passed(validations),
          synthesis_quality |-> calculate_synthesis_quality(report, history)]

----------------------------------------------------------------------------
(* AdvancedResearchPipeline: the activities *)

\* Config.MAX_RESEARCH_ITERATIONS
MAX_RESEARCH_ITERATIONS == 10

\* the plans the planner returns: up to MaxPlan steps, step i asking query i
Plans == {[i \in 1..n |-> i] : n \in 0..MaxPlan}

\* the default plan of _adaptive_planning (three steps)
DefaultPlan == <<1, 2, 3>>

\* what one search-and-analyse task pair of the orchestrator yields: the
\* analysis task failed or timed out, an analysis without key findings, or an
\* analysis with findings and a confidence
StepConfidences == {Pct(30), Pct(90)}
Analyses ==
    {[kind |-> "failed", confidence |-> 0], [kind |-> "empty", confidence |-> 0]}
    \cup {[kind |-> "findings", confidence |-> c] : c \in StepConfidences}

\* the lengths of the reports the synthesis returns: "", 500 and 1000 characters
Reports == {0, 500, 1000}

\* what validate_finding answers when the finding is not cached: a level that
\* is cached, or (the answer did not parse) level low, not cached
Verdicts == {[level |-> "high", cached |-> TRUE], [level |-> "failed", cached |-> TRUE],
             [level |-> "low", cached |-> FALSE]}

\* _get_next_queries(num)
get_next_queries(plan, history, num) ==
    SubSeq(plan, Len(history) + 1, Min(Len(history) + num, Len(plan)))

\* AgentOrchestrator.parallel_search_and_analyze: the analyses collected for
\* queries[:3], outs[i] being the outcome of the tasks of query i; a failed
\* analysis task is left out of the list
parallel_search_and_analyze(queries, outs) ==
    SelectSeq([i \in 1..Min(Len(queries), 3) |-> outs[i]],
              LAMBDA a : a.kind # "failed")

\* the loop of _adaptive_searching over enumerate(results), from index i on:
\* a result with key findings is stored as a step under queries[i]
RECURSIVE store_results(_, _, _, _)
store_results(history, analyses, queries, i) ==
    IF i > Len(analyses) THEN history
    ELSE store_results(
            IF analyses[i].kind = "findings"
            THEN Append(history,
                        [step_number |-> Len(history) + 1,
                         query |-> IF i <= Len(queries) THEN queries[i] ELSE 0,
                         confidence |-> analyses[i].confidence])
            ELSE history,
            analyses, queries, i + 1)

\* a variant of get_state_path that lists the destinations only
get_state_path_Destinations(cs, hist) == [i \in 1..Len(hist) |-> hist[i].to_state]

\* get_state_path
get_state_path(cs, hist) == <<cs>> \o [i \in 1..Len(hist) |-> hist[i].to_state]

\* a variant of the while condition that admits one iteration past the budget
loop_condition_Inclusive(cs, it, budget) ==
    cs # COMPLETED /\ cs # FAILED /\ it <= budget

\* the while condition of execute
loop_condition(cs, it, budget) ==
    cs # COMPLETED /\ cs # FAILED /\ it < budget

\* max_iterations or Config.MAX_RESEARCH_ITERATIONS
effective_budget(arg) == IF arg = 0 THEN MAX_RESEARCH_ITERATIONS ELSE arg

----------------------------------------------------------------------------
(* ABTest: exact rational arithmetic.  A rational is a record [n, d] in     *)
(* lowest terms with d > 0; the rounding of Python floats is not modelled.  *)

RECURSIVE GCD(_, _)
GCD(a, b) == IF b = 0 THEN a ELSE GCD(b, a % b)

Rat(n, d) ==
    LET sn == IF d < 0 THEN -n ELSE n
        sd == Abs(d)
        g  == GCD(Abs(sn), sd)
    IN [n |-> sn \div g, d |-> sd \div g]

RAdd(a, b) == Rat(a.n * b.d + b.n * a.d, a.d * b.d)
RSub(a, b) == Rat(a.n * b.d - b.n * a.d, a.d * b.d)
RDiv(a, b) == Rat(a.n * b.d, a.d * b.n)
RLess(a, b) == a.n * b.d < b.n * a.d
RMax(a, b) == IF RLess(a, b) THEN b ELSE a
RMin(a, b) == IF RLess(b, a) THEN b ELSE a

\* sum(values), the values being sequences of rationals
RECURSIVE RSum(_)
RSum(values) ==
    IF values = <<>> THEN Rat(0, 1) ELSE RAdd(values[1], RSum(Tail(values)))

----------------------------------------------------------------------------
(* ABTest *)

\* metric values callers record, in thousandths: negative, zero, positive
MetricValues == {-1000, 0, 800, 1000}

\* the variant names callers use
VariantNames == {"A", "B", "control"}

\* the variants mappings tests are created with (keys in insertion order)
VariantOrders == {<<"B", "A">>, <<"A", "B", "control">>}

\* the min_samples callers pass to get_winner
SampleThresholds == 0..(MaxResults + 1)

\* the keys of a variants mapping
Registered(order) == {order[i] : i \in 1..Len(order)}

\* sum(values) / len(values), the values being in thousandths
mean(values) ==
    RDiv(RSum([i \in 1..Len(values) |-> Rat(values[i], 1000)]), Rat(Len(values), 1))

\* get_winner: the keys of stats, i.e. the variants with values, in the
\* order of variant_stats
stats_keys(order, stats) == SelectSeq(order, LAMBDA v : Len(stats[v]) > 0)

\* a variant of max that keeps the last of several greatest means
RECURSIVE max_by_mean_Last(_, _, _)
max_by_mean_Last(keys, stats, best) ==
    IF keys = <<>> THEN best
    ELSE max_by_mean_Last(Tail(keys), stats,
                          IF RLess(mean(stats[keys[1]]), mean(stats[best]))
                          THEN best ELSE keys[1])

\* max(stats.items(), key=mean) over the keys after the first, `best` being
\* the greatest so far: a later key replaces it only with a greater mean
RECURSIVE max_by_mean(_, _, _)
max_by_mean(keys, stats, best) ==
    IF keys = <<>> THEN best
    ELSE max_by_mean(Tail(keys), stats,
                     IF RLess(mean(stats[best]), mean(stats[keys[1]]))
                     THEN keys[1] ELSE best)

\* _calculate_confidence: the margins of the winner over the other variants
margins(winner, keys, stats) ==
    LET others == SelectSeq(keys, LAMBDA v : v # winner)
        winner_mean == mean(stats[winner])
    IN [i \in 1..Len(others) |->
           RDiv(RSub(winner_mean, mean(stats[others[i]])),
                RMax(winner_mean, Rat(1, 100)))]

\* a variant of _calculate_confidence without the cap
ab_calculate_confidence_Uncapped(winner, keys, stats) ==
    LET m == margins(winner, keys, stats) IN
    IF m = <<>> THEN Rat(1, 2)
    ELSE RAdd(Rat(1, 2), RDiv(RSum(m), Rat(Len(m), 1)))

\* ABTest._calculate_confidence
ab_calculate_confidence(winner, keys, stats) ==
    LET m == margins(winner, keys, stats) IN
    IF m = <<>> THEN Rat(1, 2)
    ELSE RMin(Rat(95, 100), RAdd(Rat(1, 2), RDiv(RSum(m), Rat(Len(m), 1))))

\* ABTest.get_winner: what it returns, or the exception of max() over no stats
\* (all_stats is left out)
get_winner(order, recorded, stats, min_samples) ==
    IF Len(recorded) < min_samples
    THEN [kind |-> "insufficient", need |-> min_samples, have |-> Len(recorded)]
    ELSE IF stats_keys(order, stats) = <<>>
    THEN [kind |-> "ValueError"]
    ELSE LET keys == stats_keys(order, stats)
             best == max_by_mean(Tail(keys), stats, keys[1])
         IN [kind |-> "winner",
             winner |-> best,
             mean |-> mean(stats[best]),
             confidence |-> ab_calculate_confidence(best, keys, stats)]

\* record_result: the Variant of the TestResult
result_variant(variant) == IF variant \in {"A", "B"} THEN variant ELSE "control"

\* ABTest.__init__: a client constructs a test
CreateTest ==
    /\ \E order \in VariantOrders :
          /\ variants' = order
          /\ variant_stats' = [v \in Registered(order) |-> <<>>]
    /\ test_results' = <<>>
    /\ returned' = [kind |-> "None"]
    /\ UNCHANGED <<machine_vars, driver_vars, pool_vars, active_tests>>

\* a variant of the second append of record_result that appends the value to
\* every variant's list
record_stats_Every(stats, variant, value) ==
    [v \in DOMAIN stats |-> Append(stats[v], value)]

\* record_result: self.variant_stats[variant].append(metric_value)
record_stats(stats, variant, value) ==
    [stats EXCEPT ![variant] = Append(@, value)]

\* ABTest.record_result(variant, metric_value): the result is appended first;
\* for a name that is not a key of variant_stats the second append raises
\* KeyError
record_result(variant, value) ==
    /\ test_results' =
          Append(test_results,
                 [variant |-> result_variant(variant), metric_value |-> value])
    /\ IF variant \in DOMAIN variant_stats
       THEN /\ variant_stats' = record_stats(variant_stats, variant, value)
            /\ returned' = [kind |-> "None"]
       ELSE /\ variant_stats' = variant_stats
            /\ returned' = [kind |-> "KeyError"]
    /\ variants' = variants

\* a client calls record_result on the test
RecordResult ==
    /\ variants # <<>>
    /\ Len(test_results) < MaxResults
    /\ \E variant \in VariantNames, value \in MetricValues :
          record_result(variant, value)
    /\ UNCHANGED <<machine_vars, driver_vars, pool_vars, active_tests>>

\* ABTest.get_winner(min_samples)
GetWinner ==
    /\ variants # <<>>
    /\ \E min_samples \in SampleThresholds :
          returned' = get_winner(variants, test_results, variant_stats, min_samples)
    /\ UNCHANGED <<machine_vars, driver_vars, pool_vars, variants, test_results, variant_stats,
                   active_tests>>

NextAB ==
    \/ CreateTest
    \/ RecordResult
    \/ GetWinner

\* one A/B test used by its clients
SpecAB == Init /\ [][NextAB]_vars

----------------------------------------------------------------------------
(* ABTest.get_variant and ABTestManager *)

\* the weight 1.0, in sixths
Whole == 2 * 3

\* the points random() * total falls between, one per sixth
Points == 0..(Whole - 1)

\* the item of a traffic split
Share(name, weight) == [name |-> name, weight |-> weight]

\* traffic_split=None
NoSplit == [given |-> FALSE, items |-> <<>>]

\* a traffic split passed by the caller (items in insertion order)
Split(items) == [given |-> TRUE, items |-> items]

\* the traffic_split arguments callers pass to get_variant
SplitArgs ==
    { NoSplit,
      Split(<<Share("A", Whole), Share("B", 0)>>),
      Split(<<Share("A", 0), Share("B", Whole)>>),
      Split(<<Share("A", Whole \div 2), Share("control", 0), Share("B", Whole \div 2)>>),
      Split(<<Share("A", 0), Share("B", 0)>>) }

\* a variant of the default split that gives traffic only to the variants
\* without recorded values
effective_split_Unseen(order, split) ==
    IF ~split.given
    THEN [i \in 1..Len(order) |->
            Share(order[i],
                  IF variant_stats[order[i]] = <<>> THEN Whole \div Len(order) ELSE 0)]
    ELSE split.items

\* get_variant: the split used, the equal split when none is given
effective_split(order, split) ==
    IF ~split.given
    THEN [i \in 1..Len(order) |-> Share(order[i], Whole \div Len(order))]
    ELSE split.items

\* itertools.accumulate(weights), up to item i
RECURSIVE cum_weights(_, _)
cum_weights(items, i) ==
    IF i = 0 THEN 0 ELSE items[i].weight + cum_weights(items, i - 1)

\* a variant of random.choices that bisects to the left
choices_Left(items, r) ==
    LET index == Cardinality({i \in 1..(Len(items) - 1) : cum_weights(items, i) < r})
    IN items[index + 1].name

\* random.choices(population, weights)[0] for random() * total in [r, r + 1):
\* bisect(cum_weights, random() * total, 0, len(population) - 1)
choices(items, r) ==
    LET index == Cardinality({i \in 1..(Len(items) - 1) : cum_weights(items, i) <= r})
    IN items[index + 1].name

\* ABTest.get_variant(traffic_split) on a test with the variants `order`, for
\* the random number r: the name returned, or the exception of random.choices
draw(order, split, r) ==
    LET items == effective_split(order, split) IN
    IF items = <<>> THEN [kind |-> "IndexError"]
    ELSE IF cum_weights(items, Len(items)) <= 0 THEN [kind |-> "ValueError"]
    ELSE [kind |-> "variant", variant |-> choices(items, r), traffic_split |-> split]

\* the random numbers of a draw: below the total weight
draw_points(order, split) ==
    LET items == effective_split(order, split)
        total == cum_weights(items, Len(items))
    IN IF total <= 0 THEN {0} ELSE {r \in Points : r < total}

\* this step is a call get_variant(split) on the test that drew r
get_variant(split, r) ==
    /\ r \in draw_points(variants, split)
    /\ returned' = draw(variants, split, r)
    /\ UNCHANGED <<variants, test_results, variant_stats>>

\* a client calls get_variant on the test
GetVariant ==
    /\ variants # <<>>
    /\ \E split \in SplitArgs, r \in Points : get_variant(split, r)
    /\ UNCHANGED <<machine_vars, driver_vars, pool_vars, active_tests>>

\* the plan quality _adaptive_planning records for the default plan of three
\* steps, in thousandths
PlanQualities == {600}

\* _adaptive_planning: the result is recorded for the variant that was drawn
RecordDrawn ==
    /\ variants # <<>>
    /\ returned.kind = "variant"
    /\ Len(test_results) < MaxResults
    /\ \E value \in PlanQualities : record_result(returned.variant, value)
    /\ UNCHANGED <<machine_vars, driver_vars, pool_vars, active_tests>>

\* the names tests are created under
TestNames == {"planning_strategy", "analysis_depth"}

\* the names callers look up: those and one under which nothing is created
LookupNames == TestNames \cup {"prompt_style"}

\* the identities of ABTest objects
TestIds == 1..(Cardinality(TestNames) + 1)

\* list(d.keys())
dict_keys(d) == [i \in 1..Len(d) |-> d[i].name]

\* a variant of the registration that adds an entry without looking for the name
dict_set_Append(d, name, test) == Append(d, [name |-> name, test |-> test])

\* self.active_tests[name] = test
dict_set(d, name, test) ==
    IF \E i \in 1..Len(d) : d[i].name = name
    THEN [i \in 1..Len(d) |->
            IF d[i].name = name THEN [name |-> name, test |-> test] ELSE d[i]]
    ELSE Append(d, [name |-> name, test |-> test])

\* ABTestManager.get_test(name): self.active_tests.get(name)
get_test(d, name) ==
    IF \E i \in 1..Len(d) : d[i].name = name
    THEN LET first == CHOOSE i \in 1..Len(d) :
                         /\ d[i].name = name
                         /\ \A j \in 1..(i - 1) : d[j].name # name
         IN [kind |-> "test", test |-> d[first].test]
    ELSE [kind |-> "None"]

\* ABTestManager.list_tests()
list_tests(d) == [kind |-> "names", names |-> dict_keys(d)]

\* ABTestManager.create_test(name, metric, variants): a new ABTest object,
\* distinct from every registered one, is registered under the name and
\* returned; the test variables describe the test created last
create_test(name, order) ==
    /\ \E test \in TestIds \ {active_tests[i].test : i \in 1..Len(active_tests)} :
          /\ active_tests' = dict_set(active_tests, name, test)
          /\ returned' = [kind |-> "new test", test |-> test]
    /\ variants' = order
    /\ variant_stats' = [v \in Registered(order) |-> <<>>]
    /\ test_results' = <<>>

\* a client creates a test through the manager
ManagerCreateTest ==
    /\ \E name \in TestNames, order \in VariantOrders : create_test(name, order)
    /\ UNCHANGED <<machine_vars, driver_vars, pool_vars>>

\* a client looks a test up
GetTest ==
    /\ \E name \in LookupNames : returned' = get_test(active_tests, name)
    /\ UNCHANGED <<machine_vars, driver_vars, pool_vars, variants, test_results, variant_stats,
                   active_tests>>

\* a client lists the tests
ListTests ==
    /\ returned' = list_tests(active_tests)
    /\ UNCHANGED <<machine_vars, driver_vars, pool_vars, variants, test_results, variant_stats,
                   active_tests>>

NextManager ==
    \/ ManagerCreateTest
    \/ GetTest
    \/ ListTests
    \/ GetVariant
    \/ RecordDrawn

\* the tests of a manager, drawn from and recorded to as the pipeline does
SpecManager == Init /\ [][NextManager]_vars


----------------------------------------------------------------------------
(* AdvancedResearchPipeline: execute and its A/B tests *)

\* execute(query, max_iterations), up to the loop, for the budgets callers
\* pass explicitly (the default budget is effective_budget(0))
Execute ==
    /\ pc = "idle"
    /\ \E arg \in 1..MaxBudget : max_iterations' = effective_budget(arg)
    /\ iteration' = 0
    /\ pc' = "loop"
    /\ UNCHANGED <<ab_tests, ab_vars, pool_vars, machine_vars, built, research_plan, research_history, agent_phase,
                   final_report, validation_results, validation_cache,
                   iterations_without_progress, previous_confidence, results>>

\* the loop test, and `iteration += 1` when it passes
LoopTest ==
    /\ pc = "loop"
    /\ IF loop_condition(current_state, iteration, max_iterations)
       THEN iteration' = iteration + 1 /\ pc' = "activity"
       ELSE iteration' = iteration /\ pc' = "final"
    /\ UNCHANGED <<ab_tests, ab_vars, pool_vars, machine_vars, max_iterations, built, research_plan, research_history,
                   agent_phase, final_report, validation_results, validation_cache,
                   iterations_without_progress, previous_confidence, results>>

\* Config.MAX_SEARCH_QUERIES
MAX_SEARCH_QUERIES == 5

\* len(self.research_plan) / max(Config.MAX_SEARCH_QUERIES, 1), in thousandths
plan_quality(plan) ==
    (Len(plan) * 1000) \div Max(MAX_SEARCH_QUERIES, 1)

\* a variant of record_result on a test of the pipeline that records the
\* value twice
test_record_result_Twice(test, variant, value) ==
    LET result == [variant |-> result_variant(variant), metric_value |-> value] IN
    [test EXCEPT !.results = @ \o <<result, result>>,
                 !.variant_stats = record_stats(record_stats(@, variant, value),
                                                variant, value)]

\* ABTest.record_result(variant, metric_value) on a test of the pipeline, for
\* a variant the test has
test_record_result(test, variant, value) ==
    [test EXCEPT
        !.results = Append(@, [variant |-> result_variant(variant),
                               metric_value |-> value]),
        !.variant_stats = record_stats(@, variant, value)]

\* get_winner's default for min_samples
default_min_samples == 30

\* the ab_test_results of phase3_metadata: get_winner() of every listed test
ab_test_results(tests) ==
    LET names == list_tests(tests).names IN
    [i \in 1..Len(names) |->
        LET test == get_test(tests, names[i]).test IN
        [name |-> names[i],
         result |-> get_winner(test.variants, test.results, test.variant_stats,
                               default_min_samples)]]

\* _adaptive_planning: a variant of planning_strategy is drawn, _plan_phase
\* runs, an empty plan is replaced by the default plan, and the plan quality
\* is recorded for the variant
AdaptivePlanning ==
    /\ pc = "activity" /\ current_state = PLANNING
    /\ agent_phase' = "planning"
    /\ \E plan \in Plans :
          research_plan' = IF plan = <<>> THEN DefaultPlan ELSE plan
    /\ LET planning_test == get_test(ab_tests, "planning_strategy").test IN
       \E r \in draw_points(planning_test.variants, NoSplit) :
          LET variant == draw(planning_test.variants, NoSplit, r).variant IN
          ab_tests' = dict_set(ab_tests, "planning_strategy",
                               test_record_result(planning_test, variant,
                                                  plan_quality(research_plan')))
    /\ pc' = "build"
    /\ UNCHANGED <<ab_vars, pool_vars, machine_vars, iteration, max_iterations, built, research_history,
                   final_report, validation_results, validation_cache,
                   iterations_without_progress, previous_confidence, results>>

\* _adaptive_searching
AdaptiveSearching ==
    /\ pc = "activity" /\ current_state = SEARCHING
    /\ LET queries == get_next_queries(research_plan, research_history, 3) IN
       IF queries = <<>>
       THEN research_history' = research_history
       ELSE \E outs \in [1..Len(queries) -> Analyses] :
               research_history' =
                   store_results(research_history,
                                 parallel_search_and_analyze(queries, outs),
                                 queries, 1)
    /\ pc' = "build"
    /\ UNCHANGED <<ab_tests, ab_vars, pool_vars, machine_vars, iteration, max_iterations, built, research_plan,
                   agent_phase, final_report, validation_results, validation_cache,
                   iterations_without_progress, previous_confidence, results>>

\* _adaptive_analyzing: semantic search only, no state of the controller changes
AdaptiveAnalyzing ==
    /\ pc = "activity" /\ current_state = ANALYZING
    /\ pc' = "build"
    /\ UNCHANGED <<ab_tests, ab_vars, pool_vars, machine_vars, iteration, max_iterations, built, research_plan,
                   research_history, agent_phase, final_report, validation_results,
                   validation_cache, iterations_without_progress,
                   previous_confidence, results>>

\* the findings _adaptive_validating samples: one per stored step, the first five
sample_findings(history) == [i \in 1..Min(Len(history), 5) |-> i]

\* FactChecker.validate_finding over the sample, verdicts[i] being the answer
\* for finding i if it is not cached: the levels appended
validated_levels(sample, cache, verdicts) ==
    [i \in 1..Len(sample) |->
        IF sample[i] \in DOMAIN cache THEN cache[sample[i]] ELSE verdicts[i].level]

\* FactChecker.validation_cache after validating the sample
cache_after(sample, cache, verdicts) ==
    [f \in DOMAIN cache \cup
           {sample[i] : i \in {j \in 1..Len(sample) :
                                  sample[j] \notin DOMAIN cache /\ verdicts[j].cached}} |->
        IF f \in DOMAIN cache THEN cache[f]
        ELSE verdicts[CHOOSE j \in 1..Len(sample) : sample[j] = f].level]

\* _adaptive_validating
AdaptiveValidating ==
    /\ pc = "activity" /\ current_state = VALIDATING
    /\ LET sample == sample_findings(research_history) IN
       \E verdicts \in [1..Len(sample) -> Verdicts] :
          \* the answer for a cached finding is never asked for
          /\ \A i \in 1..Len(sample) :
                sample[i] \in DOMAIN validation_cache
                    => verdicts[i] = [level |-> "high", cached |-> TRUE]
          /\ validation_results' =
                validation_results \o validated_levels(sample, validation_cache, verdicts)
          /\ validation_cache' = cache_after(sample, validation_cache, verdicts)
    /\ pc' = "build"
    /\ UNCHANGED <<ab_tests, ab_vars, pool_vars, machine_vars, iteration, max_iterations, built, research_plan,
                   research_history, agent_phase, final_report,
                   iterations_without_progress, previous_confidence, results>>

\* _adaptive_refining: prints the strategy only
AdaptiveRefining ==
    /\ pc = "activity" /\ current_state = REFINING
    /\ pc' = "build"
    /\ UNCHANGED <<ab_tests, ab_vars, pool_vars, machine_vars, iteration, max_iterations, built, research_plan,
                   research_history, agent_phase, final_report, validation_results,
                   validation_cache, iterations_without_progress,
                   previous_confidence, results>>

\* _adaptive_synthesizing: _synthesis_phase
AdaptiveSynthesizing ==
    /\ pc = "activity" /\ current_state = SYNTHESIZING
    /\ agent_phase' = "synthesizing"
    /\ \E report \in Reports : final_report' = report
    /\ pc' = "build"
    /\ UNCHANGED <<ab_tests, ab_vars, pool_vars, machine_vars, iteration, max_iterations, built, research_plan,
                   research_history, validation_results, validation_cache,
                   iterations_without_progress, previous_confidence, results>>

\* context = self._build_context()
BuildContext ==
    /\ pc = "build"
    /\ built' = build_context(research_plan, research_history, validation_results,
                              final_report, previous_confidence,
                              iterations_without_progress)
    /\ iterations_without_progress' =
          stagnation_after(research_plan, research_history, previous_confidence,
                           iterations_without_progress)
    /\ previous_confidence' =
          previous_after(research_plan, research_history, previous_confidence)
    /\ pc' = "next"
    /\ UNCHANGED <<ab_tests, ab_vars, pool_vars, machine_vars, iteration, max_iterations, research_plan,
                   research_history, agent_phase, final_report, validation_results,
                   validation_cache, results>>

\* next_state = self.state_machine.next_state(context)
CallNextState ==
    /\ pc = "next"
    /\ next_state(built)
    /\ pc' = "loop"
    /\ UNCHANGED <<ab_tests, ab_vars, pool_vars, iteration, max_iterations, built, research_plan, research_history,
                   agent_phase, final_report, validation_results, validation_cache,
                   iterations_without_progress, previous_confidence, results>>

\* the condition of the final synthesis after the loop
final_synthesis_due(cs, report) == cs = COMPLETED /\ report = 0

\* "Final synthesis if not already done"
FinalSynthesis ==
    /\ pc = "final"
    /\ IF final_synthesis_due(current_state, final_report)
       THEN /\ agent_phase' = "synthesizing"
            /\ \E report \in Reports : final_report' = report
       ELSE UNCHANGED <<agent_phase, final_report>>
    /\ pc' = "save"
    /\ UNCHANGED <<ab_tests, ab_vars, pool_vars, machine_vars, iteration, max_iterations, built, research_plan,
                   research_history, validation_results, validation_cache,
                   iterations_without_progress, previous_confidence, results>>

\* _save_results and the phase3_metadata added to it
SaveResults ==
    /\ pc = "save"
    /\ results' = [final_report |-> final_report,
                   total_steps |-> Len(research_history),
                   state_path |-> get_state_path(current_state, state_history),
                   total_transitions |-> Len(state_history),
                   validation_results |-> Len(validation_results),
                   ab_test_results |-> ab_test_results(ab_tests)]
    /\ pc' = "done"
    /\ UNCHANGED <<ab_tests, ab_vars, pool_vars, machine_vars, iteration, max_iterations, built, research_plan,
                   research_history, agent_phase, final_report, validation_results,
                   validation_cache, iterations_without_progress, previous_confidence>>

NextDriver ==
    \/ Execute
    \/ LoopTest
    \/ AdaptivePlanning
    \/ AdaptiveSearching
    \/ AdaptiveAnalyzing
    \/ AdaptiveValidating
    \/ AdaptiveRefining
    \/ AdaptiveSynthesizing
    \/ BuildContext
    \/ CallNextState
    \/ FinalSynthesis
    \/ SaveResults

\* one execute() call on a freshly constructed pipeline; the call is one thread
\* of control that keeps running until it returns
SpecDriver == Init /\ [][NextDriver]_vars /\ WF_vars(NextDriver)

----------------------------------------------------------------------------
(* AgentOrchestrator.parallel_search_and_analyze, task by task *)

\* ThreadPoolExecutor(max_workers=5)
max_workers == 5

\* the query lists callers pass: queries 1..n
QueryBatches == {[k \in 1..n |-> k] : n \in 1..MaxQueries}

\* a task submitted to the executor by the current call
NewTask(kind, query) ==
    [kind |-> kind, query |-> query, status |-> "queued", value |-> "none",
     waited |-> "pending", current |-> TRUE, loaded |-> <<>>]

\* the agent whose process() a task runs: one shared SEARCHER, one shared ANALYZER
agent_of(task) == IF task.kind = "search" THEN "searcher" ELSE "analyzer"

\* update_metrics, the store of tasks_completed += 1: the value the thread
\* loaded, plus one
tasks_completed(metrics, task) ==
    [metrics EXCEPT ![agent_of(task)] = task.loaded[1] + 1]

\* what a task returns: a search its data, an analysis one with or without
\* key findings
TaskValues(kind) == IF kind = "search" THEN {"data"} ELSE {"findings", "empty"}

\* the tasks of earlier calls that are still queued or running: the caller
\* gave up on them, the executor did not
stragglers(ts) ==
    LET left == SelectSeq(ts, LAMBDA t : t.status \in {"queued", "running"})
    IN [k \in 1..Len(left) |-> [left[k] EXCEPT !.current = FALSE]]

\* the number of search tasks of the current call: queries[:3]
submitted(queries) == Min(Len(queries), 3)

\* the tasks a worker thread is executing
running(ts) == {k \in 1..Len(ts) : ts[k].status = "running"}

\* the analysis a delivered analysis task contributes to results
analysis_of(task) ==
    [kind |-> task.value, query |-> task.query,
     confidence |-> IF task.value = "findings" THEN Pct(90) ELSE 0]

\* parallel_search_and_analyze(queries), the first loop: the search tasks are
\* submitted
SubmitSearches ==
    /\ batch.pc \in {"idle", "stored"}
    /\ batch.calls < MaxCalls
    /\ \E queries \in QueryBatches :
          LET old == stragglers(tasks) IN
          /\ tasks' = old \o [k \in 1..submitted(queries) |-> NewTask("search", queries[k])]
          /\ batch' = [pc |-> "searching", queries |-> queries, i |-> 1,
                       base |-> Len(old), search_results |-> <<>>,
                       results |-> <<>>, calls |-> batch.calls + 1]
    /\ UNCHANGED <<machine_vars, driver_vars, ab_vars, performance_metrics>>

\* a worker thread of the executor takes the task queued first
StartTask ==
    /\ Cardinality(running(tasks)) < max_workers
    /\ \E k \in 1..Len(tasks) :
          /\ tasks[k].status = "queued"
          /\ \A j \in 1..(k - 1) : tasks[j].status # "queued"
          /\ tasks' = [tasks EXCEPT ![k].status = "running"]
    /\ UNCHANGED <<machine_vars, driver_vars, ab_vars, batch, performance_metrics>>

\* process() of the task's agent reaches update_metrics in its worker thread,
\* on the success path or in the except branch: the thread loads
\* performance_metrics["tasks_completed"]; no lock is held, so other threads
\* run between this load and the store
LoadTasksCompleted ==
    /\ \E k \in running(tasks) :
          /\ tasks[k].loaded = <<>>
          /\ tasks' = [tasks EXCEPT ![k].loaded = <<performance_metrics[agent_of(tasks[k])]>>]
    /\ UNCHANGED <<machine_vars, driver_vars, ab_vars, batch, performance_metrics>>

\* the thread stores the loaded value plus one, and _search_task /
\* _analyze_task returns (process catches every exception of the agent): the
\* future keeps the value, which nobody reads when the caller has given the
\* task up
FinishTask ==
    /\ \E k \in running(tasks) :
          /\ tasks[k].loaded # <<>>
          /\ performance_metrics' = tasks_completed(performance_metrics, tasks[k])
          /\ IF tasks[k].waited = "given up"
             THEN tasks' = [tasks EXCEPT ![k].status = "done", ![k].loaded = <<>>]
             ELSE \E value \in TaskValues(tasks[k].kind) :
                     tasks' = [tasks EXCEPT ![k].status = "done", ![k].value = value,
                                            ![k].loaded = <<>>]
    /\ UNCHANGED <<machine_vars, driver_vars, ab_vars, batch>>

\* the second loop: task.result(timeout=30) of search task i returns the data,
\* or raises TimeoutError (30 seconds passed before the task was done) and a
\* result without data is put in its place
WaitSearch ==
    /\ batch.pc = "searching"
    /\ batch.i <= submitted(batch.queries)
    /\ LET k == batch.base + batch.i
           delivered == tasks[k].status = "done"
       IN /\ tasks' = [tasks EXCEPT
                          ![k].waited = IF delivered THEN "delivered" ELSE "given up"]
          /\ batch' = [batch EXCEPT
                          !.i = @ + 1,
                          !.search_results =
                              Append(@, [query |-> tasks[k].query,
                                         data |-> IF delivered THEN "data" ELSE "none"])]
    /\ UNCHANGED <<machine_vars, driver_vars, ab_vars, performance_metrics>>

\* the third loop: one analysis task is submitted for each search result
SubmitAnalyses ==
    /\ batch.pc = "searching"
    /\ batch.i > submitted(batch.queries)
    /\ tasks' = tasks \o [k \in 1..Len(batch.search_results) |->
                             NewTask("analysis", batch.search_results[k].query)]
    /\ batch' = [batch EXCEPT !.pc = "analyzing", !.i = 1]
    /\ UNCHANGED <<machine_vars, driver_vars, ab_vars, performance_metrics>>

\* the fourth loop: task.result(timeout=30) of analysis task i returns the
\* analysis, which is appended to results, or raises TimeoutError, and nothing
\* is appended
WaitAnalysis ==
    /\ batch.pc = "analyzing"
    /\ batch.i <= Len(batch.search_results)
    /\ LET k == batch.base + submitted(batch.queries) + batch.i
           delivered == tasks[k].status = "done"
       IN /\ tasks' = [tasks EXCEPT
                          ![k].waited = IF delivered THEN "delivered" ELSE "given up"]
          /\ batch' = [batch EXCEPT
                          !.i = @ + 1,
                          !.results = IF delivered THEN Append(@, analysis_of(tasks[k]))
                                      ELSE @]
    /\ UNCHANGED <<machine_vars, driver_vars, ab_vars, performance_metrics>>

\* return results
ReturnResults ==
    /\ batch.pc = "analyzing"
    /\ batch.i > Len(batch.search_results)
    /\ batch' = [batch EXCEPT !.pc = "returned"]
    /\ UNCHANGED <<machine_vars, driver_vars, ab_vars, tasks, performance_metrics>>

\* _adaptive_searching, after the call: the results with key findings are
\* stored as steps of the research history
StoreBatch ==
    /\ batch.pc = "returned"
    /\ research_history' = store_results(research_history, batch.results, batch.queries, 1)
    /\ batch' = [batch EXCEPT !.pc = "stored"]
    /\ UNCHANGED <<machine_vars, ab_vars, ab_tests, tasks, performance_metrics, pc, iteration,
                   max_iterations, built,
                   research_plan, agent_phase, final_report, validation_results,
                   validation_cache, iterations_without_progress,
                   previous_confidence, results>>

NextBatch ==
    \/ SubmitSearches
    \/ StartTask
    \/ LoadTasksCompleted
    \/ FinishTask
    \/ WaitSearch
    \/ SubmitAnalyses
    \/ WaitAnalysis
    \/ ReturnResults
    \/ StoreBatch

\* the SEARCHING activity calling one orchestrator, its worker threads running
\* beside the caller
SpecBatch == Init /\ [][NextBatch]_vars

----------------------------------------------------------------------------
(* Vocabulary of the claims *)

Last(h) == h[Len(h)]

\* this step is a next_state call, and context' is its argument
Called == next_state(context')

\* the call recorded exactly one transition, to state `to` with reason `reason`
Recorded(to, reason) ==
    /\ current_state' = to
    /\ state_history' = Append(state_history, StateTransition(current_state, to, reason))

\* rule 1 and rule 2 of the transition policy, as the specification words them
ContradictionEscalation(cs, c) ==
    /\ cs # VALIDATING
    /\ c.results_found > 0
    /\ (c.contradictions > 2 \/ c.confidence < Pct(50))

StagnationEscalation(cs, c) ==
    /\ cs # REFINING
    /\ c.iterations_without_progress > 2

\* rule 3
EarlyCompletion(cs, c) ==
    /\ cs = SYNTHESIZING
    /\ c.confidence > Pct(80)
    /\ c.coverage > Pct(75)
    /\ c.contradictions = 0

NonTerminal == WorkflowState \ {COMPLETED, FAILED}

----------------------------------------------------------------------------
(* C1 *)

\* C1: under persisting stagnation (iterations_without_progress > 2 in every
\* context) the machine cannot cycle among non-terminal states forever.  The
\* decision of next_state depends on the current state and the context only,
\* so a run that enters a non-terminal state a second time can repeat the
\* contexts in between forever; and a run that never re-enters one is in a
\* terminal state after at most six calls.  Hence the claim is: no two calls
\* of a run under stagnation are made in the same state.
C1_StagnationTerminates ==
    \A i, j \in 1..Len(state_history) :
        i < j => state_history[i].from_state # state_history[j].from_state

----------------------------------------------------------------------------
(* C2 *)

\* C2 as claimed: with iterations_without_progress > 2, a next_state call in
\* REFINING returns SYNTHESIZING whatever the other context values are.
C2_ForcedExitAlways ==
    [][(Called /\ current_state = REFINING
               /\ context'.iterations_without_progress > 2)
       => current_state' = SYNTHESIZING]_vars

\* C2 amended: with iterations_without_progress > 2, a next_state call in
\* REFINING returns SYNTHESIZING (reason forcing_synthesis_stuck_in_loop)
\* whatever coverage is, unless contradiction escalation matches
\* (results_found > 0 and (contradictions > 2 or confidence < 0.5)), in which
\* case it returns VALIDATING.
C2_ForcedExitUnlessContradictions ==
    [][(Called /\ current_state = REFINING
               /\ context'.iterations_without_progress > 2)
       => IF ContradictionEscalation(REFINING, context')
          THEN current_state' = VALIDATING
          ELSE Recorded(SYNTHESIZING, "forcing_synthesis_stuck_in_loop")]_vars

\* the forced exit was taken with coverage not above 0.7 and no results
C2_Witness ==
    /\ Len(state_history) > 0
    /\ Last(state_history) =
          StateTransition(REFINING, SYNTHESIZING, "forcing_synthesis_stuck_in_loop")
    /\ current_state = SYNTHESIZING
    /\ context.iterations_without_progress > 2
    /\ context.coverage <= Pct(70)
    /\ context.results_found = 0

----------------------------------------------------------------------------
(* C3 *)

\* C3: in every state but VALIDATING, a next_state call with results_found > 0
\* and (contradictions > 2 or confidence < 0.5) returns VALIDATING and records
\* one transition to VALIDATING with reason contradictions_detected.
C3_ContradictionEscalation ==
    [][(Called /\ ContradictionEscalation(current_state, context'))
       => Recorded(VALIDATING, "contradictions_detected")]_vars

\* the escalation fired on low confidence alone
C3_Witness ==
    /\ Len(state_history) > 0
    /\ Last(state_history).reason = "contradictions_detected"
    /\ Last(state_history).from_state = ANALYZING
    /\ current_state = VALIDATING
    /\ context.results_found > 0
    /\ context.contradictions <= 2
    /\ context.confidence < Pct(50)

----------------------------------------------------------------------------
(* C4 *)

\* C4: COMPLETED and FAILED are terminal: no step taken in one of them changes
\* current_state or state_history.
C4_TerminalStatesAbsorb ==
    [][(current_state \in {COMPLETED, FAILED})
       => (current_state' = current_state /\ state_history' = state_history)]_vars

----------------------------------------------------------------------------
(* C5 *)

\* C5 as claimed: a new machine is in PLANNING with an empty history, and a
\* next_state call in PLANNING returns SEARCHING for every context.
C5_PlanningAlwaysSearching ==
    /\ current_state = PLANNING /\ state_history = <<>>
    /\ [][(Called /\ current_state = PLANNING) => current_state' = SEARCHING]_vars

\* C5 amended: a new machine is in PLANNING with an empty history, and a
\* next_state call in PLANNING returns SEARCHING (reason plan_complete) for
\* every context in which neither escalation rule matches, i.e. with
\* iterations_without_progress <= 2 and (results_found == 0 or
\* (contradictions <= 2 and confidence >= 0.5)).
C5_PlanningToSearching ==
    /\ current_state = PLANNING /\ state_history = <<>>
    /\ [][(Called /\ current_state = PLANNING
                  /\ ~ContradictionEscalation(PLANNING, context')
                  /\ ~StagnationEscalation(PLANNING, context'))
          => Recorded(SEARCHING, "plan_complete")]_vars

\* the first call of a new machine went to SEARCHING
C5_Witness ==
    /\ state_history = <<StateTransition(PLANNING, SEARCHING, "plan_complete")>>
    /\ current_state = SEARCHING
    /\ context.iterations_without_progress <= 2

----------------------------------------------------------------------------
(* C6 *)

\* C6: the rules are tried in the order contradiction escalation, stagnation
\* escalation, early completion, state-local table, and the first match
\* decides: both escalations matching gives VALIDATING; stagnation escalation
\* without contradiction escalation gives REFINING (stuck_in_loop), also in
\* SYNTHESIZING with the early-completion condition true; early completion
\* without an escalation gives COMPLETED (objectives_met) whatever the table
\* would say.
C6_PriorityOrder ==
    [][Called =>
        /\ (ContradictionEscalation(current_state, context')
              /\ StagnationEscalation(current_state, context'))
           => Recorded(VALIDATING, "contradictions_detected")
        /\ (StagnationEscalation(current_state, context')
              /\ ~ContradictionEscalation(current_state, context'))
           => Recorded(REFINING, "stuck_in_loop")
        /\ (EarlyCompletion(current_state, context')
              /\ ~ContradictionEscalation(current_state, context')
              /\ ~StagnationEscalation(current_state, context'))
           => Recorded(COMPLETED, "objectives_met")]_vars

\* stagnation escalation won over a true early-completion condition
C6_Witness ==
    /\ Len(state_history) > 0
    /\ Last(state_history) = StateTransition(SYNTHESIZING, REFINING, "stuck_in_loop")
    /\ current_state = REFINING
    /\ EarlyCompletion(SYNTHESIZING, context)
    /\ context.iterations_without_progress > 2

----------------------------------------------------------------------------
(* C7 *)

\* the state-local default table of the specification, rows top to bottom
TableRow(cs, c) ==
    CASE cs = PLANNING -> Go(SEARCHING, "plan_complete")
      [] cs = SEARCHING ->
            IF c.results_found = 0 THEN Go(REFINING, "no_results")
            ELSE Go(ANALYZING, "results_found")
      [] cs = ANALYZING ->
            IF c.confidence < Pct(60) THEN Go(SEARCHING, "low_confidence")
            ELSE IF c.contradictions > 2 THEN Go(VALIDATING, "contradictions_found")
            ELSE IF c.coverage > Pct(70) THEN Go(SYNTHESIZING, "sufficient_coverage")
            ELSE Go(SEARCHING, "coverage_incomplete")
      [] cs = VALIDATING ->
            IF c.validation_passed THEN Go(SYNTHESIZING, "validation_passed")
            ELSE Go(REFINING, "validation_failed")
      [] cs = REFINING ->
            IF c.iterations_without_progress > 2
            THEN Go(SYNTHESIZING, "forcing_synthesis_stuck_in_loop")
            ELSE IF c.coverage > Pct(70) /\ c.results_found > 0
            THEN Go(SYNTHESIZING, "sufficient_results_for_synthesis")
            ELSE Go(SEARCHING, "strategy_refined")
      [] cs = SYNTHESIZING ->
            IF c.synthesis_quality > Pct(80) THEN Go(COMPLETED, "high_quality_synthesis")
            ELSE Go(ANALYZING, "synthesis_needs_improvement")

\* C7: when neither escalation rule fires, a next_state call in a non-terminal
\* state goes where the specification says and records its reason code:
\* COMPLETED (objectives_met) on early completion, else the table row.
C7_DefaultTable ==
    [][(Called /\ current_state \in NonTerminal
               /\ ~ContradictionEscalation(current_state, context')
               /\ ~StagnationEscalation(current_state, context'))
       => LET row == IF EarlyCompletion(current_state, context')
                     THEN Go(COMPLETED, "objectives_met")
                     ELSE TableRow(current_state, context')
          IN Recorded(row.to, row.reason)]_vars

\* SEARCHING with results_found == 0 went to REFINING with reason no_results
C7_Witness ==
    /\ Len(state_history) > 0
    /\ Last(state_history) = StateTransition(SEARCHING, REFINING, "no_results")
    /\ current_state = REFINING
    /\ context.results_found = 0
    /\ context.iterations_without_progress <= 2

----------------------------------------------------------------------------
(* The driver loop *)

InIteration == pc \in {"activity", "build", "next"}

\* C8 (as claimed): when the loop has ended with the machine not in COMPLETED,
\* the step of execute that follows the loop performs a synthesis pass (the
\* researcher enters its synthesizing phase) before the results are saved.
C8_FinalSynthesisOnExhaustion ==
    [][(pc = "final" /\ current_state # COMPLETED)
          => (pc' = "save" /\ agent_phase' = "synthesizing")]_vars

\* C9: the loop of execute terminates: it never runs more than max_iterations
\* iterations, no activity, context build or next_state call happens while the
\* machine is in COMPLETED or FAILED, and execute eventually returns.
C9_LoopTerminates ==
    /\ [](iteration <= max_iterations)
    /\ [](InIteration => current_state \notin {COMPLETED, FAILED})
    /\ <>(pc = "done")

C9_Witness ==
    /\ pc = "done"
    /\ current_state = COMPLETED
    /\ iteration < max_iterations
    /\ Len(state_history) = iteration

\* C10: every iteration runs the activity, then builds the context once, then
\* calls next_state once with that context, and each call records one
\* transition: between iterations the number of recorded transitions equals
\* the number of iterations run, inside an iteration it is one less, the
\* machine's context is the one built in the iteration, and the saved
\* total_transitions equals the number of iterations run.
C10_OneTransitionPerIteration ==
    /\ InIteration => Len(state_history) = iteration - 1
    /\ pc \in {"idle", "loop", "final", "save", "done"} => Len(state_history) = iteration
    /\ (pc = "loop" /\ iteration > 0) => context = built
    /\ pc = "done" => results.total_transitions = iteration

C10_Witness ==
    /\ pc = "done"
    /\ iteration = max_iterations
    /\ iteration >= 3
    /\ current_state \notin {COMPLETED, FAILED}
    /\ results.total_transitions = iteration
    /\ context = built

----------------------------------------------------------------------------
(* The machine's history *)

\* the destinations of the recorded transitions, in order
Destinations(hist) == [i \in 1..Len(hist) |-> hist[i].to_state]

\* C11 (as claimed): get_state_path() is PLANNING followed by the to_state of
\* every transition of state_history, in order.
C11_PathReplaysHistory ==
    get_state_path(current_state, state_history)
        = <<PLANNING>> \o Destinations(state_history)

\* C12: after any sequence of next_state and backtrack calls, the length of
\* get_state_path() is len(state_history) + 1.
C12_PathLength ==
    Len(get_state_path(current_state, state_history)) = Len(state_history) + 1

\* one transition is left after a backtrack: the context of the last
\* next_state call is a stagnant one, which from PLANNING leads to REFINING
C12_Witness ==
    /\ Len(state_history) = 1
    /\ state_history[1] = StateTransition(PLANNING, SEARCHING, "plan_complete")
    /\ current_state = SEARCHING
    /\ Get(context, "iterations_without_progress", 0) > 2
    /\ Len(get_state_path(current_state, state_history)) = 2

\* C13: for 1 <= steps <= len(state_history), backtrack(steps) removes exactly
\* the last `steps` transitions, leaves the others unchanged, and sets
\* current_state to the to_state of the new last transition, or to PLANNING
\* when no transition is left.
C13_BacktrackPops ==
    [][\A steps \in StepsValues :
          (backtrack(steps) /\ 1 <= steps /\ steps <= Len(state_history))
          => /\ state_history' = SubSeq(state_history, 1, Len(state_history) - steps)
             /\ current_state' =
                   IF Len(state_history) - steps > 0
                   THEN state_history[Len(state_history) - steps].to_state
                   ELSE PLANNING]_vars

\* the history has become empty by a backtrack: a next_state call has been
\* made (the context is not the initial one), yet no transition is recorded
C13_Witness ==
    /\ state_history = <<>>
    /\ current_state = PLANNING
    /\ DOMAIN context # {}

\* C14: a next_state call made in a non-terminal state appends exactly one
\* transition, from the state before the call to the state after it, and
\* leaves the earlier entries unchanged.
C14_CallCommits ==
    [][(Called /\ current_state \in NonTerminal)
          => /\ Len(state_history') = Len(state_history) + 1
             /\ SubSeq(state_history', 1, Len(state_history)) = state_history
             /\ Last(state_history').from_state = current_state
             /\ Last(state_history').to_state = current_state']_vars

C14_Witness ==
    /\ Len(state_history) = 3
    /\ state_history[1] = StateTransition(PLANNING, SEARCHING, "plan_complete")
    /\ state_history[2] = StateTransition(SEARCHING, REFINING, "no_results")
    /\ state_history[3] = StateTransition(REFINING, SEARCHING, "strategy_refined")
    /\ current_state = SEARCHING

\* the contexts C16 is about
KeysAbsent(c) ==
    /\ "synthesis_quality" \notin DOMAIN c
    /\ ~(CompletionKeys \subseteq DOMAIN c)

\* every rule of next_state, for every state a machine can be in and every
\* complete or incomplete context, has a destination other than FAILED
NoRuleYieldsFailed ==
    \A cs \in WorkflowState \ {FAILED} :
        \A ctx \in Contexts \cup PartialContexts : decide(cs, ctx).to # FAILED

\* C15: no next_state call returns FAILED or records a transition to FAILED,
\* and in a driver run the machine is never in FAILED.
C15_NeverFailed ==
    /\ NoRuleYieldsFailed
    /\ current_state # FAILED
    /\ \A i \in 1..Len(state_history) : state_history[i].to_state # FAILED

\* a run that ended on its budget with poor confidence and failed validations
C15_Witness ==
    /\ pc = "done"
    /\ iteration = max_iterations
    /\ built.confidence < Pct(50)
    /\ built.contradictions > 0
    /\ ~built.validation_passed
    /\ current_state \in NonTerminal

\* C16 (as claimed): a next_state call with a context that lacks
\* synthesis_quality and one of confidence, coverage, contradictions does not
\* return COMPLETED, from any state.
C16_AbsentKeysNeverReturnCompleted ==
    [][(Called /\ KeysAbsent(context')) => current_state' # COMPLETED]_vars

\* C16 (amended): such a call does not return COMPLETED from any state other
\* than COMPLETED, and a machine that is only ever given the empty context
\* never reaches COMPLETED.
C16_AbsentKeysNeverComplete ==
    /\ [][(Called /\ KeysAbsent(context') /\ current_state # COMPLETED)
             => current_state' # COMPLETED]_vars
    /\ ([](DOMAIN context = {}) => [](current_state # COMPLETED))

\* synthesis with confidence and coverage above the thresholds of early
\* completion, but no contradiction count and no synthesis_quality
C16_Witness ==
    /\ Len(state_history) > 0
    /\ Last(state_history)
          = StateTransition(SYNTHESIZING, ANALYZING, "synthesis_needs_improvement")
    /\ current_state = ANALYZING
    /\ DOMAIN context = OtherKeys \cup {"confidence", "coverage"}
    /\ context.confidence > Pct(80)
    /\ context.coverage > Pct(75)

----------------------------------------------------------------------------
(* The winner of an A/B test *)

\* this step is a call get_winner(ms) on the test
GetWinnerCalled(ms) ==
    /\ variants # <<>>
    /\ returned' = get_winner(variants, test_results, variant_stats, ms)
    /\ UNCHANGED <<variants, test_results, variant_stats>>

\* the variants with recorded values, in registration order
WithData == SelectSeq(variants, LAMBDA v : Len(variant_stats[v]) > 0)

\* the sample mean of variant v, from the definition: the sum of its values
\* (thousandths) over their number
SampleMean(v) ==
    LET vals == variant_stats[v]
        RECURSIVE Total(_)
        Total(q) == IF q = <<>> THEN 0 ELSE q[1] + Total(Tail(q))
    IN Rat(Total(vals), 1000 * Len(vals))

\* C17 (as claimed): get_winner(min_samples) returns winner None exactly when
\* fewer than min_samples results are recorded, and otherwise returns a
\* winner that is a registered variant with at least one recorded value.
C17_WinnerIffEnoughSamples ==
    [][\A ms \in SampleThresholds :
          GetWinnerCalled(ms)
          => IF Len(test_results) < ms
             THEN returned'.kind = "insufficient"
             ELSE /\ returned'.kind = "winner"
                  /\ returned'.winner \in Registered(variants)
                  /\ Len(variant_stats[returned'.winner]) > 0]_vars

\* C18: a returned winner has a mean at least that of every variant with
\* values, the reported mean is the winner's sample mean, and among several
\* variants with the greatest mean the winner is the one registered first.
C18_WinnerHasGreatestMean ==
    returned.kind = "winner"
    => /\ returned.winner \in Registered(variants)
       /\ returned.mean = SampleMean(returned.winner)
       /\ \A i \in 1..Len(WithData) :
             ~RLess(returned.mean, SampleMean(WithData[i]))
       /\ \A i \in 1..Len(WithData) :
             SampleMean(WithData[i]) = returned.mean
             => \E j \in 1..i : WithData[j] = returned.winner

\* a tie between the two variants of a test registered as B, A: B wins
C18_Witness ==
    /\ returned.kind = "winner"
    /\ variants = <<"B", "A">>
    /\ Len(variant_stats["A"]) > 0
    /\ Len(variant_stats["B"]) > 0
    /\ SampleMean("A") = SampleMean("B")
    /\ returned.winner = "B"

\* the value to which the claim clamps
Clamp(x) == RMax(Rat(1, 2), RMin(Rat(95, 100), x))

\* the average over the non-winning variants with data of
\* (winner_mean - other_mean) / max(winner_mean, 0.01)
AverageMargin(winner) ==
    LET others == SelectSeq(WithData, LAMBDA v : v # winner)
        wm == SampleMean(winner)
    IN RDiv(RSum([i \in 1..Len(others) |->
                     RDiv(RSub(wm, SampleMean(others[i])), RMax(wm, Rat(1, 100)))]),
            Rat(Len(others), 1))

\* C19 (as claimed): the reported confidence is the average margin clamped to
\* [0.5, 0.95].
C19_ConfidenceIsClampedMargin ==
    (returned.kind = "winner" /\ Len(WithData) > 1)
    => returned.confidence = Clamp(AverageMargin(returned.winner))

\* C20: the confidence reported with a winner lies in [0.5, 0.95].
C20_ConfidenceInRange ==
    returned.kind = "winner"
    => /\ ~RLess(returned.confidence, Rat(1, 2))
       /\ ~RLess(Rat(95, 100), returned.confidence)

\* a winner with a negative mean over another variant with data
C20_Witness ==
    /\ returned.kind = "winner"
    /\ RLess(returned.mean, Rat(0, 1))
    /\ Len(WithData) > 1
    /\ returned.confidence = Rat(95, 100)

----------------------------------------------------------------------------
(* Recording results *)

\* C21: record_result(variant, value) for a registered variant appends exactly
\* one result with that value to the end of the results, keeps every earlier
\* result as it was, appends the value to the list of that variant and leaves
\* the lists of the other variants unchanged.
C21_RecordAppends ==
    [][\A variant \in VariantNames, value \in MetricValues :
          (variants # <<>> /\ variant \in Registered(variants)
              /\ record_result(variant, value))
          => /\ Len(test_results') = Len(test_results) + 1
             /\ Last(test_results').metric_value = value
             /\ SubSeq(test_results', 1, Len(test_results)) = test_results
             /\ DOMAIN variant_stats' = DOMAIN variant_stats
             /\ variant_stats'[variant] = Append(variant_stats[variant], value)
             /\ \A other \in DOMAIN variant_stats \ {variant} :
                   variant_stats'[other] = variant_stats[other]]_vars

\* two results recorded for different variants of a test, nothing raised
C21_Witness ==
    /\ Len(test_results) = 2
    /\ variants = <<"B", "A">>
    /\ Len(variant_stats["A"]) = 1
    /\ Len(variant_stats["B"]) = 1
    /\ test_results[1].metric_value # test_results[2].metric_value
    /\ returned.kind = "None"

\* the metric values of the results recorded for variant v, in order
ValuesOf(v) ==
    LET rs == SelectSeq(test_results, LAMBDA r : r.variant = v)
    IN [i \in 1..Len(rs) |-> rs[i].metric_value]

\* the lengths of the lists of variant_stats, summed
RECURSIVE TotalLength(_, _)
TotalLength(stats, keys) ==
    IF keys = {} THEN 0
    ELSE LET k == CHOOSE x \in keys : TRUE
         IN Len(stats[k]) + TotalLength(stats, keys \ {k})

\* C22 (as claimed): in every reachable state, calls that raised included, the
\* lists of variant_stats have lengths that sum to the number of results and
\* each holds, in order, the metric values of the results of its variant.
C22_StatsMirrorResults ==
    variants # <<>>
    => /\ TotalLength(variant_stats, DOMAIN variant_stats) = Len(test_results)
       /\ \A v \in DOMAIN variant_stats : variant_stats[v] = ValuesOf(v)

----------------------------------------------------------------------------
(* Drawing a variant *)

\* the names a draw may return according to the claims: the keys of the split
\* with positive weight, every registered variant when no split is given
PossibleDraws(order, split) ==
    IF split.given
    THEN {split.items[i].name : i \in {j \in 1..Len(split.items) : split.items[j].weight > 0}}
    ELSE Registered(order)

\* the names get_variant(split) can return on the test in its present state
DrawSet(split) ==
    LET outcomes == {draw(variants, split, r) : r \in draw_points(variants, split)}
    IN {o.variant : o \in {x \in outcomes : x.kind = "variant"}}

\* this step is a call get_variant(split) on the test that drew r: it returned
\* a name drawn for that split, or random.choices raised
GetVariantCalled(split, r) ==
    /\ variants # <<>>
    /\ returned'.kind \in {"variant", "ValueError", "IndexError"}
    /\ returned'.kind = "variant" => returned'.traffic_split = split
    /\ get_variant(split, r)

\* C23: get_variant returns only a key of the traffic split with positive
\* weight; with no split given every registered variant, and nothing else, is
\* a possible outcome; with the split {A: 1.0, B: 0.0} every draw returns A.
C23_DrawsFollowSplit ==
    /\ [](variants # <<>> => DrawSet(NoSplit) = Registered(variants))
    /\ [][\A split \in SplitArgs, r \in Points :
             (GetVariantCalled(split, r) /\ returned'.kind = "variant")
             => /\ returned'.variant \in PossibleDraws(variants, split)
                /\ split = Split(<<Share("A", Whole), Share("B", 0)>>)
                   => returned'.variant = "A"]_vars

\* a draw with the split {A: 1.0, B: 0.0} on a test with recorded results
C23_Witness ==
    /\ returned.kind = "variant"
    /\ returned.traffic_split = Split(<<Share("A", Whole), Share("B", 0)>>)
    /\ returned.variant = "A"
    /\ Len(test_results) > 0

\* C24: get_variant leaves the variants, the results and variant_stats of the
\* test unchanged, and the set of names a draw can return is a function of the
\* split and the registered variants alone, the same whatever was drawn or
\* recorded before.
C24_DrawsAreStateless ==
    /\ [](variants # <<>>
          => \A split \in SplitArgs : DrawSet(split) = PossibleDraws(variants, split))
    /\ [][\A split \in SplitArgs, r \in Points :
             GetVariantCalled(split, r)
             => UNCHANGED <<variants, test_results, variant_stats, active_tests>>]_vars

\* with no split, B is drawn on a test whose recorded results are all for A
C24_Witness ==
    /\ variants = <<"B", "A">>
    /\ returned.kind = "variant"
    /\ ~returned.traffic_split.given
    /\ returned.variant = "B"
    /\ Len(variant_stats["A"]) = 2
    /\ variant_stats["B"] = <<>>

----------------------------------------------------------------------------
(* The registry of tests *)

\* the number of times name occurs in a list of names
Occurrences(names, name) == Cardinality({i \in 1..Len(names) : names[i] = name})

\* C25: create_test under an already registered name raises nothing and
\* replaces the test by a new one with empty results: get_test(name) then
\* returns the new test and list_tests() contains the name exactly once;
\* get_test of a name under which nothing was ever created returns None
\* (no call removes a name, so those are the names absent from the registry).
C25_CreateReplaces ==
    /\ [][\A name \in TestNames, order \in VariantOrders :
             ((\E i \in 1..Len(active_tests) : active_tests[i].name = name)
                 /\ create_test(name, order))
             => /\ returned'.kind = "new test"
                /\ returned'.test # get_test(active_tests, name).test
                /\ get_test(active_tests', name) = [kind |-> "test", test |-> returned'.test]
                /\ test_results' = <<>>
                /\ \A v \in DOMAIN variant_stats' : variant_stats'[v] = <<>>
                /\ Occurrences(list_tests(active_tests').names, name) = 1]_vars
    /\ [][\A name \in LookupNames :
             Occurrences(dict_keys(active_tests), name) > 0
             => Occurrences(dict_keys(active_tests'), name) > 0]_vars
    /\ [](\A name \in LookupNames :
             Occurrences(dict_keys(active_tests), name) = 0
             => get_test(active_tests, name).kind = "None")

\* with two names registered, a test was just created under the name that was
\* registered first: it took the place of the test of that name
C25_Witness ==
    /\ Len(active_tests) = 2
    /\ returned.kind = "new test"
    /\ returned.test = active_tests[1].test
    /\ test_results = <<>>

----------------------------------------------------------------------------
(* Parallel sub-tasks *)

\* the search task and the analysis task of the current call for its k-th query
SearchTask(k) == tasks[batch.base + k]
AnalysisTask(k) == tasks[batch.base + submitted(batch.queries) + k]

\* C26 (as claimed): parallel_search_and_analyze returns exactly one result
\* per submitted query (at most 3), in query order, and a task that failed or
\* timed out is represented by a result without data or findings.
C26_OneResultPerQuery ==
    batch.pc = "returned"
    => /\ Len(batch.results) = submitted(batch.queries)
       /\ \A k \in 1..Len(batch.results) :
             /\ batch.results[k].query = batch.queries[k]
             /\ SearchTask(k).waited = "given up"
                => batch.search_results[k].data = "none"
             /\ AnalysisTask(k).waited = "given up"
                => batch.results[k].kind = "empty"

\* C27 (as claimed): at every moment at most 3 tasks submitted by
\* parallel_search_and_analyze are executing in the worker pool.
C27_AtMostThreeRunning == Cardinality(running(tasks)) <= 3

\* a result without findings stands for query q in the returned results
EmptyResultFor(q) ==
    \E j \in 1..Len(batch.results) :
       batch.results[j].query = q /\ batch.results[j].kind = "empty"

\* C28 (as claimed): when the SEARCHING activity is over and the driver goes on
\* to call next_state, every task submitted by the activity has delivered its
\* result or has been given up and an empty result stands in its place; and a
\* task that was given up changes neither the research history nor the
\* context when it finishes later.
C28_TasksSettledBeforeNextState ==
    /\ [](batch.pc = "stored"
          => \A k \in 1..submitted(batch.queries) :
                /\ \/ SearchTask(k).waited = "delivered"
                   \/ /\ SearchTask(k).waited = "given up"
                      /\ batch.search_results[k].data = "none"
                /\ \/ AnalysisTask(k).waited = "delivered"
                   \/ /\ AnalysisTask(k).waited = "given up"
                      /\ EmptyResultFor(batch.queries[k]))
    /\ [][(\E k \in running(tasks) :
              tasks[k].waited = "given up" /\ tasks'[k].status = "done")
          => UNCHANGED <<research_history, context, built>>]_vars

----------------------------------------------------------------------------
(* The context the driver builds *)

\* this step is a call of _build_context by the driver
Rebuilt == pc = "build" /\ pc' = "next"

\* the mean confidence of the steps of a history, 0 for none
RECURSIVE ConfidenceSum(_)
ConfidenceSum(steps) ==
    IF steps = <<>> THEN 0 ELSE Last(steps).confidence + ConfidenceSum(SubSeq(steps, 1, Len(steps) - 1))

MeanConfidence(steps) ==
    IF steps = <<>> THEN 0 ELSE ConfidenceSum(steps) \div Len(steps)

\* the mean confidence of the previous rebuild, 0 before the first one
PreviousMean == IF DOMAIN built = {} THEN 0 ELSE built.confidence

\* C29: after each context rebuild of a driver run, iterations_without_progress
\* is 0 when the mean confidence differs from that of the previous rebuild by
\* more than 0.05 and its previous value plus 1 otherwise; it is never negative.
C29_StagnationCounter ==
    /\ [](iterations_without_progress >= 0)
    /\ [][Rebuilt
          => /\ iterations_without_progress' =
                   IF Abs(MeanConfidence(research_history) - PreviousMean) > Pct(5)
                   THEN 0
                   ELSE iterations_without_progress + 1
             /\ built'.iterations_without_progress = iterations_without_progress']_vars

\* a rebuild counted a change of exactly 0.05 (from 0.5 to 0.45) as no progress
C29_Witness ==
    /\ pc = "next"
    /\ Len(research_history) = 4
    /\ built.confidence = Pct(45)
    /\ iterations_without_progress > 1

\* the validation results the claim calls the most recent three
MostRecent(validations) ==
    {i \in 1..Len(validations) : i > Len(validations) - 3}

\* C30: in every context the driver builds, validation_passed is true exactly
\* when none of the most recent 3 validation results (fewer if fewer exist,
\* true if none) is FAILED, and contradictions is the number of FAILED results
\* among all validation results so far.
C30_ValidationMetrics ==
    pc = "next"
    => /\ built.validation_passed
          = (\A i \in MostRecent(validation_results) : validation_results[i] # "failed")
       /\ built.contradictions
          = Cardinality({i \in 1..Len(validation_results) : validation_results[i] = "failed"})

\* a context built when the only FAILED result is older than the last three
C30_Witness ==
    /\ pc = "next"
    /\ Len(validation_results) > 3
    /\ validation_results[1] = "failed"
    /\ built.validation_passed
    /\ built.contradictions = 1

----------------------------------------------------------------------------
(* The shape of the history *)

\* C32: in every state reachable by next_state and backtrack calls the
\* history is a connected chain that ends in the current state: it starts
\* from PLANNING, each transition starts where the one before it ended, and
\* current_state is the to_state of the last one, PLANNING for no transition.
C32_HistoryIsChain ==
    /\ state_history # <<>> => state_history[1].from_state = PLANNING
    /\ \A i \in 2..Len(state_history) :
          state_history[i].from_state = state_history[i - 1].to_state
    /\ current_state =
          IF state_history = <<>> THEN PLANNING ELSE Last(state_history).to_state

\* two transitions are left after a backtrack: the context of the last
\* next_state call has results, with which the second one was not recorded
C32_Witness ==
    /\ Len(state_history) = 2
    /\ state_history[2] = StateTransition(SEARCHING, REFINING, "no_results")
    /\ current_state = REFINING
    /\ Get(context, "results_found", 0) > 0

\* every rule of next_state that records a transition, in every state and for
\* every complete or incomplete context, leaves the state it is taken in
NoRuleLoops ==
    \A cs \in WorkflowState :
        \A ctx \in Contexts \cup PartialContexts :
            decide(cs, ctx).reason # "" => decide(cs, ctx).to # cs

\* C34: no transition next_state records is a self-loop, from any state and
\* with any context: every rule that records one names a destination other
\* than the state it is taken in, and so do the transitions of the history.
C34_NoSelfLoop ==
    /\ NoRuleLoops
    /\ \A i \in 1..Len(state_history) :
          state_history[i].from_state # state_history[i].to_state

\* the escalation to VALIDATING was recorded from REFINING and the machine,
\* stepped again with a context that escalates, left VALIDATING
C34_Witness ==
    /\ Len(state_history) = 4
    /\ state_history[3].to_state = VALIDATING
    /\ state_history[3].reason = "contradictions_detected"
    /\ state_history[4].from_state = VALIDATING
    /\ Get(context, "results_found", 0) > 0
    /\ Get(context, "confidence", One) < Pct(50)

\* C39: backtrack(steps) on an empty history, or with steps greater than the
\* length of the history, returns the current state and leaves current_state
\* and state_history as they were.
C39_BacktrackRefused ==
    [][\A steps \in StepsValues :
          (backtrack(steps) /\ (state_history = <<>> \/ steps > Len(state_history)))
          => /\ current_state' = current_state
             /\ state_history' = state_history
             /\ backtrack_state(current_state, state_history, steps) = current_state]_vars

\* a full history, which backtrack(MaxHist + 1) leaves alone
C39_Witness ==
    /\ Len(state_history) = MaxHist
    /\ MaxHist + 1 \in StepsValues
    /\ backtrack_refused(state_history, MaxHist + 1)
    /\ current_state = Last(state_history).to_state

----------------------------------------------------------------------------
(* Driver runs: completion, escalation, the first transition *)

\* C33: every recorded transition to COMPLETED starts in SYNTHESIZING, and a
\* driver run enters COMPLETED only by the next_state call of an iteration
\* whose activity was the synthesis.
C33_CompletedFromSynthesizing ==
    /\ [](\A i \in 1..Len(state_history) :
             state_history[i].to_state = COMPLETED
             => state_history[i].from_state = SYNTHESIZING)
    /\ [][(current_state' = COMPLETED /\ current_state # COMPLETED)
          => /\ pc = "next"
             /\ current_state = SYNTHESIZING
             /\ agent_phase = "synthesizing"]_vars

\* a run completed by the early-completion rule
C33_Witness ==
    /\ pc = "done"
    /\ current_state = COMPLETED
    /\ Last(state_history) = StateTransition(SYNTHESIZING, COMPLETED, "objectives_met")

\* the condition of the contradiction escalation on a built context
Escalates(c) ==
    /\ DOMAIN c # {}
    /\ c.results_found > 0
    /\ (c.contradictions > 2 \/ c.confidence < Pct(50))

\* C31: in a driver run, once a built context has results_found > 0 and
\* (contradictions > 2 or confidence < 0.5), every later context has too, the
\* machine is in VALIDATING, REFINING or SYNTHESIZING after every later
\* next_state call, and the run ends on its iteration budget, not in COMPLETED.
C31_EscalationPersists ==
    /\ [][Escalates(built)
          => /\ Escalates(built')
             /\ current_state' \in {VALIDATING, REFINING, SYNTHESIZING}]_vars
    /\ [](Escalates(built) /\ pc = "done"
          => iteration = max_iterations /\ current_state # COMPLETED)

\* a run that ended on its budget after the escalation, having been through
\* VALIDATING, REFINING and VALIDATING again
C31_Witness ==
    /\ pc = "done"
    /\ Escalates(built)
    /\ iteration = max_iterations
    /\ Len(state_history) > 4
    /\ \E i \in 1..(Len(state_history) - 2) :
          /\ state_history[i].to_state = VALIDATING
          /\ state_history[i + 1].to_state = REFINING
          /\ state_history[i + 2].to_state = VALIDATING

\* C35: in a driver run the first recorded transition is PLANNING to
\* SEARCHING with reason plan_complete, whatever plan the planner returned.
C35_FirstTransition ==
    state_history # <<>>
    => state_history[1] = StateTransition(PLANNING, SEARCHING, "plan_complete")

\* the first transition of a run whose plan is the default plan, the context
\* of the call being the one built after planning (one stagnant iteration)
C35_Witness ==
    /\ Len(state_history) = 1
    /\ research_plan = DefaultPlan
    /\ context.iterations_without_progress = 1
    /\ context.results_found = 0
    /\ current_state = SEARCHING

----------------------------------------------------------------------------
(* The steps stored by the SEARCHING activity *)

\* the returned analyses that have key findings, in the order returned
with_findings(analyses) == SelectSeq(analyses, LAMBDA a : a.kind = "findings")

\* C37 (as claimed): every research step that the SEARCHING activity stores
\* carries the query whose search results its analysis was produced from,
\* whichever search and analysis tasks of the batch failed or timed out.
C37_StepCarriesItsQuery ==
    [][(batch.pc = "returned" /\ batch'.pc = "stored")
       => LET found == with_findings(batch.results) IN
          /\ Len(research_history') = Len(research_history) + Len(found)
          /\ \A j \in 1..Len(found) :
                research_history'[Len(research_history) + j].query = found[j].query]_vars

----------------------------------------------------------------------------
(* The metrics of an agent shared by the worker threads *)

\* some running task finishes its process() call in this step
Finishes(k) ==
    /\ k \in running(tasks)
    /\ tasks'[k].status = "done"

\* C38 (as claimed): when several tasks of one batch run process() on the same
\* agent concurrently, every process() call that finishes raises the agent's
\* tasks_completed by exactly one and leaves the other agent's counter alone,
\* so the counter equals the number of calls that finished: no update is lost.
C38_NoLostUpdate ==
    [][\A k \in 1..Len(tasks) :
          Finishes(k)
          => performance_metrics' =
                [performance_metrics EXCEPT ![agent_of(tasks[k])] = @ + 1]]_vars

----------------------------------------------------------------------------
(* The A/B tests of a driver run *)

\* the pipeline's test of the planning strategy
PlanningStrategy == get_test(ab_tests, "planning_strategy").test

\* the pipeline's test of the analysis depth
AnalysisDepth == get_test(ab_tests, "analysis_depth").test

============================================================================
